---- MODULE Spec2Model ----
(***************************************************************************)
(* Installer Creator Pro: the build orchestrator                           *)
(* (core/generator.py, InstallerGeneratorThread) as started by the main    *)
(* window (ui/main_window.py, MainWindow.generate_installer).              *)
(*                                                                         *)
(* Strings are sequences of tokens: a project name is a sequence of        *)
(* characters, a file name is a sequence of tokens whose last token is the *)
(* extension.  The file system is the caller's output directory (a map     *)
(* from file name to the run that produced the file, 0 = no such file),    *)
(* the set of scratch workspaces that exist, and the content of the        *)
(* workspace of the run in progress.  Runs are followed one at a time.     *)
(***************************************************************************)
EXTENDS Integers, Sequences, FiniteSets, TLC

\* ---------------------------------------------------------------- bounds
MaxRuns == 2
MaxDist == 2

\* ------------------------------------------------------- input alphabets
ProjectNames == { <<"D">>, <<"a", " ", "b">>, <<"a", "-", "b">> }
Stderrs == { "", "ImportError: no module" }

\* --------------------------------------------------------------- strings
RECURSIVE Replace(_, _, _)
\* str.replace(old, new) on a sequence of characters
Replace(s, old, new) ==
    IF s = <<>> THEN <<>>
    ELSE <<(IF Head(s) = old THEN new ELSE Head(s))>> \o Replace(Tail(s), old, new)

\* name_safe = self.project.name.replace(" ", "_").replace("-", "_")
name_safe(name) == Replace(Replace(name, " ", "_"), "-", "_")

\* the file the build spec asks the packaging tool for: '<name_safe>_Setup' + .exe
SetupExe(name) == name_safe(name) \o <<"_Setup", ".exe">>

\* mutant of EndsWithExe: any name with an extension passes
EndsWithAnyExtension(f) == Len(f) > 1

\* f.endswith('.exe')
EndsWithExe(f) == Len(f) > 0 /\ f[Len(f)] = ".exe"

HelperExe == <<"helper", ".exe">>
NotesTxt == <<"notes", ".txt">>
FileNames == { SetupExe(n) : n \in ProjectNames } \cup { HelperExe, NotesTxt }

\* [f for f in dist_files if f.endswith('.exe')]
RECURSIVE exe_files(_)
exe_files(files) ==
    IF files = <<>> THEN <<>>
    ELSE (IF EndsWithExe(Head(files)) THEN <<Head(files)>> ELSE <<>>)
         \o exe_files(Tail(files))

Range(s) == { s[i] : i \in 1..Len(s) }

\* os.listdir results of at most MaxDist distinct entries, in any order
Listings(names) ==
    { s \in UNION { [1..n -> names] : n \in 0..MaxDist } :
        \A i, j \in 1..Len(s) : i # j => s[i] # s[j] }

\* ------------------------------------------------------------ exceptions
NoExc == [kind |-> "none", stderr |-> "", files |-> <<>>]
\* an exception raised by the environment in the named step
OSError(step) == [kind |-> step, stderr |-> "", files |-> <<>>]
\* RuntimeError(f"PyInstaller failed: {result.stderr}")
PyInstallerFailed(err) == [kind |-> "PyInstaller failed: ", stderr |-> err, files |-> <<>>]
\* FileNotFoundError(f"Dist directory not found: {dist_dir}")
DistNotFound == [kind |-> "Dist directory not found: ", stderr |-> "", files |-> <<>>]
\* FileNotFoundError(f"No .exe file found in {dist_dir}. Files present: {dist_files}")
NoExeFound(files) == [kind |-> "No .exe file found. Files present: ", stderr |-> "", files |-> files]
\* shutil.Error("Destination path '...' already exists")
DestinationExists == [kind |-> "Destination path already exists", stderr |-> "", files |-> <<>>]

\* ---------------------------------------------------------------- events
Progress(p) == [type |-> "progress", pct |-> p, text |-> "", exc |-> NoExc, ok |-> FALSE]
Log(t) == [type |-> "log", pct |-> -1, text |-> t, exc |-> NoExc, ok |-> FALSE]
\* a log line that formats an exception, the tool's stderr or a directory listing
LogExc(t, e) == [type |-> "log", pct |-> -1, text |-> t, exc |-> e, ok |-> FALSE]
LogStderr(err) == LogExc("PyInstaller stderr: ", [kind |-> "", stderr |-> err, files |-> <<>>])
LogFiles(files) == LogExc("Files in dist: ", [kind |-> "", stderr |-> "", files |-> files])
\* self.finished.emit(message, success)
Finished(t, e, s) == [type |-> "finished", pct |-> -1, text |-> t, exc |-> e, ok |-> s]

VARIABLES
    project,        \* MainWindow.project (the fields the build reads)
    out_exists,     \* the caller's output directory exists
    out_parent,     \* the parent of the output directory exists
    out_files,      \* file name -> run that produced the file there, 0 = absent
    workspaces,     \* scratch workspaces that exist on disk
    run_no,         \* number of generator threads started so far
    pc,             \* position of the generator thread in run()
    temp_dir,       \* self.temp_dir: 0 = None, else the workspace
    ws_files,       \* artifacts written into the workspace of this run
    dist,           \* <workspace>/dist: [present, entries]
    result,         \* subprocess result: [returncode, stderr]
    dist_files,     \* local dist_files of _run_pyinstaller
    generated_exe,  \* local generated_exe of _run_pyinstaller (<<>> = unset)
    exc,            \* the exception in flight
    events,         \* the events this run has emitted, in order
    fault,          \* the step in which the environment failed, "none" if it did not
    out_before,     \* out_files when the run was started
    writes,         \* number of times this run wrote the output path
    steps,          \* the steps this run has entered, in order
    tool_dist,      \* <workspace>/dist as the packaging tool left it
    rmtree_calls,   \* number of shutil.rmtree calls of this run
    val,            \* a call of validate_project: its project, the file system, its result
    ui,             \* the main window: project, generate button, generator threads
    doc,            \* a project in memory, its source files and its persisted document
    gen,            \* a call of the installer-script synthesizer: project and text
    ed,             \* the script-element list of the window and the selected row
    inst            \* a run of the generated install routine on a target machine

\* the variables of the build orchestrator
runVars == <<project, out_exists, out_parent, out_files, workspaces, run_no, pc,
             temp_dir, ws_files, dist, result, dist_files, generated_exe, exc,
             events, fault, out_before, writes, steps, tool_dist, rmtree_calls>>

\* the variables of the other components
appVars == <<val, ui, doc, gen, ed, inst>>

vars == <<runVars, appVars>>

NoDist == [present |-> FALSE, entries |-> <<>>]
NoResult == [returncode |-> -1, stderr |-> ""]

\* a component that takes no part in the specification at hand
Unused == [state |-> "unused"]

\* the build orchestrator before the first run
RunInit(names) ==
    /\ project \in [name : names]
    /\ out_exists \in BOOLEAN
    /\ out_parent = TRUE
    /\ out_files = [f \in FileNames |-> 0]
    /\ workspaces = {}
    /\ run_no = 0
    /\ pc = "idle"
    /\ temp_dir = 0
    /\ ws_files = {}
    /\ dist = NoDist
    /\ result = NoResult
    /\ dist_files = <<>>
    /\ generated_exe = <<>>
    /\ exc = NoExc
    /\ events = <<>>
    /\ fault = "none"
    /\ out_before = out_files
    /\ writes = 0
    /\ steps = <<>>
    /\ tool_dist = NoDist
    /\ rmtree_calls = 0

\* the build orchestrator left alone
RunParked == RunInit({<<"D">>}) /\ out_exists = FALSE

Init ==
    /\ RunInit(ProjectNames)
    /\ ed = Unused
    /\ inst = Unused
    /\ val = Unused
    /\ ui = Unused
    /\ doc = Unused
    /\ gen = Unused

fsVars == <<out_exists, out_parent, out_files>>
localVars == <<dist_files, generated_exe>>
ghostVars == <<out_before, writes, tool_dist>>

Enter(step) == steps' = Append(steps, step)

Emit(evs) == events' = events \o evs

\* ------------------------------------------------------ progress checkpoints
PctStart == 0
PctTempDir == 5
PctScript == 20
PctSpec == 35
PctRunning == 40
PctToolDone == 80
PctMoved == 95
PctDone == 100

\* ------------------------------------------------------------- main window
\* MainWindow.generate_installer: the project is read from the form, the
\* output directory is created, and a generator thread is started with
\* output_path = project.output_dir.
generate_installer ==
    /\ pc \in {"idle", "done"}
    /\ run_no < MaxRuns
    /\ \E n \in ProjectNames : project' = [name |-> n]
    /\ out_exists' = TRUE
    /\ out_parent' = TRUE
    /\ run_no' = run_no + 1
    /\ pc' = "start"
    /\ temp_dir' = 0
    /\ ws_files' = {}
    /\ dist' = NoDist
    /\ result' = NoResult
    /\ dist_files' = <<>>
    /\ generated_exe' = <<>>
    /\ exc' = NoExc
    /\ events' = <<>>
    /\ fault' = "none"
    /\ out_before' = out_files
    /\ writes' = 0
    /\ steps' = <<>>
    /\ tool_dist' = NoDist
    /\ rmtree_calls' = 0
    /\ UNCHANGED <<out_files, workspaces>>
    /\ UNCHANGED appVars

\* ------------------------------------------------------- generator thread
\* raise inside the try block of run(): control goes to the except clause
Raise(e) ==
    /\ exc' = e
    /\ pc' = "except"

\* an exception raised by the environment (I/O failure) in the named step
Fail(step) ==
    /\ fault' = step
    /\ Raise(OSError(step))

\* run(), lines 30-31
run_start ==
    /\ pc = "start"
    /\ Emit(<<Progress(PctStart), Log("=== Installer Generation Started ===")>>)
    /\ pc' = "preparing"
    /\ UNCHANGED <<project, fsVars, workspaces, run_no, temp_dir, ws_files, dist,
                   result, localVars, exc, fault, ghostVars, steps, rmtree_calls>>
    /\ UNCHANGED appVars

\* run(), lines 33-34: tempfile.mkdtemp
preparing ==
    /\ pc = "preparing"
    /\ Enter("preparing")
    /\ \/ /\ temp_dir' = run_no
          /\ workspaces' = workspaces \cup {run_no}
          /\ Emit(<<Progress(PctTempDir)>>)
          /\ pc' = "scripting"
          /\ UNCHANGED <<exc, fault>>
       \/ /\ Fail("preparing")
          /\ UNCHANGED <<temp_dir, workspaces, events>>
    /\ UNCHANGED <<project, fsVars, run_no, ws_files, dist, result, localVars,
                   ghostVars, rmtree_calls>>
    /\ UNCHANGED appVars

\* run(), lines 36-41: write installer.py
scripting ==
    /\ pc = "scripting"
    /\ Enter("scripting")
    /\ \/ /\ ws_files' = ws_files \cup {"installer.py"}
          /\ Emit(<<Progress(PctScript)>>)
          /\ pc' = "specifying"
          /\ UNCHANGED <<exc, fault>>
       \/ /\ Fail("scripting")
          /\ UNCHANGED <<ws_files, events>>
    /\ UNCHANGED <<project, fsVars, workspaces, run_no, temp_dir, dist, result,
                   localVars, ghostVars, rmtree_calls>>
    /\ UNCHANGED appVars

\* mutant of specifying: the build spec is generated but never written
specifying_unwritten ==
    /\ pc = "specifying"
    /\ Enter("specifying")
    /\ \/ /\ Emit(<<Progress(PctSpec)>>)
          /\ pc' = "packaging"
          /\ UNCHANGED <<ws_files, exc, fault>>
       \/ /\ Fail("specifying")
          /\ UNCHANGED <<ws_files, events>>
    /\ UNCHANGED <<project, fsVars, workspaces, run_no, temp_dir, dist, result,
                   localVars, ghostVars, rmtree_calls>>
    /\ UNCHANGED appVars

\* run(), lines 43-48: write installer.spec
specifying ==
    /\ pc = "specifying"
    /\ Enter("specifying")
    /\ \/ /\ ws_files' = ws_files \cup {"installer.spec"}
          /\ Emit(<<Progress(PctSpec)>>)
          /\ pc' = "packaging"
          /\ UNCHANGED <<exc, fault>>
       \/ /\ Fail("specifying")
          /\ UNCHANGED <<ws_files, events>>
    /\ UNCHANGED <<project, fsVars, workspaces, run_no, temp_dir, dist, result,
                   localVars, ghostVars, rmtree_calls>>
    /\ UNCHANGED appVars

\* what the packaging tool can leave in <workspace>/dist for this project
DistNames == { SetupExe(project.name), HelperExe, NotesTxt }
ToolDists == {NoDist} \cup { [present |-> TRUE, entries |-> l] : l \in Listings(DistNames) }

\* mutant of packaging: the exit code of the tool is not checked
packaging_unchecked ==
    /\ pc = "packaging"
    /\ Enter("packaging")
    /\ \/ /\ Emit(<<Log("Running PyInstaller..."), Progress(PctRunning)>>)
          /\ Fail("packaging")
          /\ UNCHANGED <<result, dist, tool_dist>>
       \/ \E rc \in {0, 1}, err \in Stderrs, d \in ToolDists :
             /\ result' = [returncode |-> rc, stderr |-> err]
             /\ dist' = d
             /\ tool_dist' = d
             /\ Emit(<<Log("Running PyInstaller..."), Progress(PctRunning),
                       Progress(PctToolDone)>>)
             /\ pc' = "collecting"
             /\ UNCHANGED <<exc, fault>>
    /\ UNCHANGED <<project, fsVars, workspaces, run_no, temp_dir, ws_files,
                   localVars, out_before, writes, rmtree_calls>>
    /\ UNCHANGED appVars

\* _run_pyinstaller(), lines 71-94: invoke the tool, check its exit code
packaging ==
    /\ pc = "packaging"
    /\ Enter("packaging")
    /\ \/ \* subprocess.run itself raises
          /\ Emit(<<Log("Running PyInstaller..."), Progress(PctRunning)>>)
          /\ Fail("packaging")
          /\ UNCHANGED <<result, dist, tool_dist>>
       \/ \E rc \in {0, 1}, err \in Stderrs, d \in ToolDists :
             /\ result' = [returncode |-> rc, stderr |-> err]
             /\ dist' = d
             /\ tool_dist' = d
             /\ IF rc # 0
                THEN /\ Emit(<<Log("Running PyInstaller..."), Progress(PctRunning),
                               Progress(PctToolDone),
                               LogStderr(err)>>)
                     /\ Raise(PyInstallerFailed(err))
                ELSE /\ Emit(<<Log("Running PyInstaller..."), Progress(PctRunning),
                               Progress(PctToolDone)>>)
                     /\ pc' = "collecting"
                     /\ exc' = exc
             /\ fault' = fault
    /\ UNCHANGED <<project, fsVars, workspaces, run_no, temp_dir, ws_files,
                   localVars, out_before, writes, rmtree_calls>>
    /\ UNCHANGED appVars

\* mutant of collecting: the first dist entry is moved before the .exe check
collecting_moving_first ==
    /\ pc = "collecting"
    /\ Enter("collecting")
    /\ IF ~dist.present
       THEN /\ Raise(DistNotFound)
            /\ UNCHANGED <<events, dist_files, generated_exe, out_files>>
       ELSE /\ dist_files' = dist.entries
            /\ IF exe_files(dist.entries) = <<>>
               THEN /\ Emit(<<LogFiles(dist.entries)>>)
                    /\ Raise(NoExeFound(dist.entries))
                    /\ UNCHANGED generated_exe
                    /\ out_files' = IF dist.entries = <<>> THEN out_files
                                    ELSE [out_files EXCEPT ![dist.entries[1]] = run_no]
               ELSE /\ generated_exe' = exe_files(dist.entries)[1]
                    /\ Emit(<<LogFiles(dist.entries),
                              Log("Found generated installer: ")>>)
                    /\ pc' = "relocating"
                    /\ exc' = exc
                    /\ out_files' = out_files
    /\ UNCHANGED <<project, out_exists, out_parent, workspaces, run_no, temp_dir, ws_files, dist,
                   result, fault, ghostVars, rmtree_calls>>
    /\ UNCHANGED appVars

\* _run_pyinstaller(), lines 96-111: find the executable in dist
collecting ==
    /\ pc = "collecting"
    /\ Enter("collecting")
    /\ IF ~dist.present
       THEN /\ Raise(DistNotFound)
            /\ UNCHANGED <<events, dist_files, generated_exe>>
       ELSE /\ dist_files' = dist.entries
            /\ IF exe_files(dist.entries) = <<>>
               THEN /\ Emit(<<LogFiles(dist.entries)>>)
                    /\ Raise(NoExeFound(dist.entries))
                    /\ UNCHANGED generated_exe
               ELSE /\ generated_exe' = exe_files(dist.entries)[1]
                    /\ Emit(<<LogFiles(dist.entries),
                              Log("Found generated installer: ")>>)
                    /\ pc' = "relocating"
                    /\ exc' = exc
    /\ UNCHANGED <<project, fsVars, workspaces, run_no, temp_dir, ws_files, dist,
                   result, fault, ghostVars, rmtree_calls>>
    /\ UNCHANGED appVars

RemoveEntry(entries, f) == SelectSeq(entries, LAMBDA x : x # f)

\* _run_pyinstaller(), lines 113-120: shutil.move(generated_exe, output_path).
\* output_path is the output directory, which exists: shutil.move moves the
\* file into it under its own base name and raises if that name is taken.
relocating ==
    /\ pc = "relocating"
    /\ Enter("relocating")
    /\ out_exists
    /\ out_parent' = TRUE
    /\ \/ /\ out_files[generated_exe] # 0
          /\ Raise(DestinationExists)
          /\ UNCHANGED <<out_files, dist, events, fault, writes>>
       \/ /\ out_files[generated_exe] = 0
          /\ out_files' = [out_files EXCEPT ![generated_exe] = run_no]
          /\ dist' = [dist EXCEPT !.entries = RemoveEntry(dist.entries, generated_exe)]
          /\ writes' = writes + 1
          /\ Emit(<<Log("Installer created"), Progress(PctMoved)>>)
          /\ pc' = "completed"
          /\ UNCHANGED <<exc, fault>>
       \/ \* os.makedirs or the move fails before anything is written
          /\ Fail("relocating")
          /\ UNCHANGED <<out_files, dist, events, writes>>
       \/ \* the rename is refused, the file is copied and os.unlink(src) fails
          /\ out_files[generated_exe] = 0
          /\ out_files' = [out_files EXCEPT ![generated_exe] = run_no]
          /\ writes' = writes + 1
          /\ Fail("relocating")
          /\ UNCHANGED <<dist, events>>
    /\ UNCHANGED <<project, out_exists, workspaces, run_no, temp_dir, ws_files,
                   result, localVars, out_before, tool_dist, rmtree_calls>>
    /\ UNCHANGED appVars

\* mutant of run_completed: the last checkpoint is not reported
run_completed_silent ==
    /\ pc = "completed"
    /\ Emit(<<Log("Installer generation successful"),
              Finished("output_path", NoExc, TRUE)>>)
    /\ pc' = "finally"
    /\ UNCHANGED <<project, fsVars, workspaces, run_no, temp_dir, ws_files, dist,
                   result, localVars, exc, fault, ghostVars, steps, rmtree_calls>>
    /\ UNCHANGED appVars

\* run(), lines 52-54
run_completed ==
    /\ pc = "completed"
    /\ Emit(<<Progress(PctDone), Log("Installer generation successful"),
              Finished("output_path", NoExc, TRUE)>>)
    /\ pc' = "finally"
    /\ UNCHANGED <<project, fsVars, workspaces, run_no, temp_dir, ws_files, dist,
                   result, localVars, exc, fault, ghostVars, steps, rmtree_calls>>
    /\ UNCHANGED appVars

\* mutant of run_except: the error is logged but no outcome is emitted
run_except_silent ==
    /\ pc = "except"
    /\ Emit(<<LogExc("ERROR: Installer generation failed: ", exc)>>)
    /\ pc' = "finally"
    /\ UNCHANGED <<project, fsVars, workspaces, run_no, temp_dir, ws_files, dist,
                   result, localVars, exc, fault, ghostVars, steps, rmtree_calls>>
    /\ UNCHANGED appVars

\* run(), lines 56-59
run_except ==
    /\ pc = "except"
    /\ Emit(<<LogExc("ERROR: Installer generation failed: ", exc),
              Finished("Installer generation failed: ", exc, FALSE)>>)
    /\ pc' = "finally"
    /\ UNCHANGED <<project, fsVars, workspaces, run_no, temp_dir, ws_files, dist,
                   result, localVars, exc, fault, ghostVars, steps, rmtree_calls>>
    /\ UNCHANGED appVars

\* mutant of run_finally: the workspace is removed on the success path only
run_finally_on_success ==
    /\ pc = "finally"
    /\ IF temp_dir # 0 /\ temp_dir \in workspaces /\ exc = NoExc
       THEN /\ rmtree_calls' = rmtree_calls + 1
            /\ \/ /\ workspaces' = workspaces \ {temp_dir}
                  /\ ws_files' = {}
                  /\ dist' = NoDist
                  /\ Emit(<<Log("Cleaned up temp directory: ")>>)
               \/ /\ Emit(<<LogExc("Warning: Could not clean temp directory: ",
                                   OSError("cleanup"))>>)
                  /\ UNCHANGED <<workspaces, ws_files, dist>>
       ELSE UNCHANGED <<rmtree_calls, workspaces, ws_files, dist, events>>
    /\ pc' = "done"
    /\ UNCHANGED <<project, fsVars, run_no, temp_dir, result, localVars, exc,
                   fault, ghostVars, steps>>
    /\ UNCHANGED appVars

\* mutant of run_finally: a cleanup failure is escalated to a failure outcome
run_finally_escalating ==
    /\ pc = "finally"
    /\ IF temp_dir # 0 /\ temp_dir \in workspaces
       THEN /\ rmtree_calls' = rmtree_calls + 1
            /\ \/ /\ workspaces' = workspaces \ {temp_dir}
                  /\ ws_files' = {}
                  /\ dist' = NoDist
                  /\ Emit(<<Log("Cleaned up temp directory: ")>>)
               \/ /\ Emit(<<LogExc("Warning: Could not clean temp directory: ",
                                   OSError("cleanup")),
                             Finished("Installer generation failed: ",
                                      OSError("cleanup"), FALSE)>>)
                  /\ UNCHANGED <<workspaces, ws_files, dist>>
       ELSE UNCHANGED <<rmtree_calls, workspaces, ws_files, dist, events>>
    /\ pc' = "done"
    /\ UNCHANGED <<project, fsVars, run_no, temp_dir, result, localVars, exc,
                   fault, ghostVars, steps>>
    /\ UNCHANGED appVars

\* run(), lines 61-68
run_finally ==
    /\ pc = "finally"
    /\ IF temp_dir # 0 /\ temp_dir \in workspaces
       THEN /\ rmtree_calls' = rmtree_calls + 1
            /\ \/ /\ workspaces' = workspaces \ {temp_dir}
                  /\ ws_files' = {}
                  /\ dist' = NoDist
                  /\ Emit(<<Log("Cleaned up temp directory: ")>>)
               \/ /\ Emit(<<LogExc("Warning: Could not clean temp directory: ",
                                   OSError("cleanup"))>>)
                  /\ UNCHANGED <<workspaces, ws_files, dist>>
       ELSE UNCHANGED <<rmtree_calls, workspaces, ws_files, dist, events>>
    /\ pc' = "done"
    /\ UNCHANGED <<project, fsVars, run_no, temp_dir, result, localVars, exc,
                   fault, ghostVars, steps>>
    /\ UNCHANGED appVars

Next ==
    \/ generate_installer
    \/ run_start
    \/ preparing
    \/ scripting
    \/ specifying
    \/ packaging
    \/ collecting
    \/ relocating
    \/ run_completed
    \/ run_except
    \/ run_finally

Spec == Init /\ [][Next]_vars

\* ---------------------------------------------------------------- helpers
IsPrefix(a, b) == Len(a) <= Len(b) /\ \A i \in 1..Len(a) : a[i] = b[i]

\* the outcome (finished) events of the run, in order
Outcomes == SelectSeq(events, LAMBDA e : e.type = "finished")

\* the percentages of the progress events of the run, in order
Percentages ==
    LET p == SelectSeq(events, LAMBDA e : e.type = "progress")
    IN  [i \in 1..Len(p) |-> p[i].pct]

\* shutil.rmtree raised in the finally clause
CleanupFailed ==
    \E i \in 1..Len(events) :
        events[i].text = "Warning: Could not clean temp directory: "

Succeeded == Len(Outcomes) > 0 /\ Outcomes[1].ok
ToolFailed == result # NoResult /\ result.returncode # 0
ToolSucceeded == result # NoResult /\ result.returncode = 0
NoExeIn(entries) == \A i \in 1..Len(entries) : entries[i][Len(entries[i])] # ".exe"

\* The output directory exists from generate_installer on.
OutputDirExists == pc # "idle" => out_exists /\ out_parent

\* ----------------------------------------------------------------- claims

\* C1: every run of the build orchestrator emits exactly one outcome
\* (finished) event, on the success path and on every failure path, and
\* whether or not the cleanup fails: never more than one, and one when the
\* run has ended.
C1_ExactlyOneOutcome ==
    /\ Len(Outcomes) <= 1
    /\ pc = "done" => Len(Outcomes) = 1

C1_Witness ==
    /\ pc = "done"
    /\ fault = "relocating"
    /\ CleanupFailed
    /\ Len(Outcomes) = 1

\* C2: the outcome event is the last event of the run; no progress or log
\* event follows it.
C2_OutcomeIsLast ==
    \A i \in 1..Len(events) : events[i].type = "finished" => i = Len(events)

\* C3: when a run that created a scratch workspace has ended, the removal
\* of the workspace has been attempted, and unless the removal failed the
\* workspace no longer exists.
C3_CleanupOnEveryExit ==
    (pc = "done" /\ temp_dir # 0) =>
        /\ rmtree_calls = 1
        /\ ~CleanupFailed => temp_dir \notin workspaces

C3_Witness ==
    /\ pc = "done"
    /\ temp_dir # 0
    /\ exc = NoExeFound(<<NotesTxt>>)
    /\ ~CleanupFailed
    /\ temp_dir \notin workspaces

\* C4: on a failing run there is a single failure event, it carries the
\* exception's message, and the scratch workspace is already removed when
\* that event is emitted.
C4_CleanupBeforeFailureOutcome ==
    \A i \in 1..Len(events) :
        (events[i].type = "finished" /\ ~events[i].ok) =>
            /\ Len(Outcomes) = 1
            /\ events[i].exc = exc
            /\ temp_dir \notin workspaces

\* what C5 says of a run whose packaging tool exited with a non-zero code,
\* apart from the workspace
NonZeroExitFails ==
    /\ ToolFailed =>
          /\ steps = <<"preparing", "scripting", "specifying", "packaging">>
          /\ writes = 0
          /\ out_files = out_before
    /\ (ToolFailed /\ pc = "done") =>
          /\ Len(Outcomes) = 1
          /\ ~Outcomes[1].ok
          /\ Outcomes[1].exc.stderr = result.stderr

\* C5 as stated: after a non-zero exit of the packaging tool the collecting
\* and relocating steps are not performed, there is exactly one outcome
\* event, with success=false and the captured stderr in its message, and
\* the scratch workspace is deleted.
C5_NonZeroExit_AsStated ==
    /\ NonZeroExitFails
    /\ (ToolFailed /\ pc = "done") => temp_dir \notin workspaces

\* C5 (amended): as above, but the removal of the scratch workspace is
\* attempted once, and the workspace is deleted unless that removal fails.
C5_NonZeroExit ==
    /\ NonZeroExitFails
    /\ (ToolFailed /\ pc = "done") =>
          /\ rmtree_calls = 1
          /\ ~CleanupFailed => temp_dir \notin workspaces

C5_Witness ==
    /\ pc = "done"
    /\ ToolFailed
    /\ result.stderr = "ImportError: no module"
    /\ Outcomes[1].exc.stderr = "ImportError: no module"
    /\ temp_dir \notin workspaces

\* C6: when the packaging tool exits with code 0 and the dist directory
\* holds no entry ending in .exe, the run ends with a failure outcome whose
\* message lists the entries found in dist and nothing is moved to the
\* output path; when the dist directory is absent the run ends with the
\* 'Dist directory not found' failure outcome.
C6_MissingExecutable ==
    (pc = "done" /\ ToolSucceeded) =>
        /\ (tool_dist.present /\ NoExeIn(tool_dist.entries)) =>
              /\ Outcomes = <<Finished("Installer generation failed: ",
                                       NoExeFound(tool_dist.entries), FALSE)>>
              /\ out_files = out_before
              /\ writes = 0
        /\ ~tool_dist.present =>
              Outcomes = <<Finished("Installer generation failed: ",
                                    DistNotFound, FALSE)>>

C6_Witness ==
    /\ pc = "done"
    /\ ToolSucceeded
    /\ tool_dist = [present |-> TRUE, entries |-> <<NotesTxt>>]
    /\ Outcomes[1].exc.files = <<NotesTxt>>

StepOrder == <<"preparing", "scripting", "specifying", "packaging",
               "collecting", "relocating">>

\* C7: the steps of a run are entered in the fixed order preparing,
\* scripting, specifying, packaging, collecting, relocating, none skipped
\* or reordered; once a step has failed no later step is entered and
\* nothing more is written; the packaging tool is invoked only when both
\* artifacts are in the workspace; a run that succeeds has entered all six.
C7_StepOrder ==
    [][ /\ IsPrefix(steps', StepOrder)
        /\ (steps' # steps /\ pc' # "start") =>
              steps' = Append(steps, StepOrder[Len(steps) + 1])
        /\ (pc \in {"except", "finally", "done"} /\ pc' # "start") =>
              UNCHANGED <<steps, out_files, result, writes>>
        /\ (pc = "packaging" /\ result' # result) =>
              {"installer.py", "installer.spec"} \subseteq ws_files
        /\ (Len(Outcomes') > 0 /\ Outcomes'[1].ok) => steps' = StepOrder
      ]_vars

C7_Witness ==
    /\ pc = "done"
    /\ Succeeded
    /\ steps = StepOrder

\* C8: the percentages a run emits are a prefix of 0, 5, 20, 35, 40, 80,
\* 95, 100; a run whose outcome is success has emitted all of them; 100 is
\* emitted only on a run whose outcome is success.
C8_ProgressCheckpoints ==
    /\ IsPrefix(Percentages, <<0, 5, 20, 35, 40, 80, 95, 100>>)
    /\ Succeeded => Percentages = <<0, 5, 20, 35, 40, 80, 95, 100>>
    /\ (Len(Outcomes) > 0 /\ ~Outcomes[1].ok) =>
          \A i \in 1..Len(Percentages) : Percentages[i] # 100

C8_Witness ==
    /\ pc = "done"
    /\ Succeeded
    /\ Percentages = <<0, 5, 20, 35, 40, 80, 95, 100>>

\* C9: after a run whose outcome is success, <output_dir>/<name_safe>_Setup.exe
\* holds the executable this run found in dist, it is the only file of the
\* output directory the run changed, and the executable is no longer in
\* dist, whatever name the first .exe entry of dist had.
C9_SetupExeAtOutput ==
    (pc = "finally" /\ Succeeded) =>
        /\ out_files[SetupExe(project.name)] = run_no
        /\ \A f \in FileNames : f # SetupExe(project.name) => out_files[f] = out_before[f]
        /\ generated_exe \notin Range(dist.entries)

\* C10: when the packaging tool succeeded and produced an executable, an
\* artifact of a prior run is at the destination and nothing in the
\* environment fails, the run ends with outcome success and the destination
\* holds the new executable; a successful run writes the output path at
\* most once.
C10_RelocationOverwrites ==
    /\ (pc = "done" /\ ToolSucceeded /\ fault = "none"
          /\ generated_exe = SetupExe(project.name)
          /\ out_before[generated_exe] # 0) =>
              /\ Succeeded
              /\ out_files[generated_exe] = run_no
    /\ Succeeded => writes = 1

\* C14: a cleanup failure never changes the outcome of the run: the finally
\* clause emits no outcome event and, when shutil.rmtree raises, exactly one
\* log line (the warning); the single outcome of the run keeps the value
\* decided before, success exactly when no exception was raised in the try
\* block.
C14_CleanupFailureIsAdvisory ==
    /\ [][ pc = "finally" =>
             /\ Outcomes' = Outcomes
             /\ Len(events') <= Len(events) + 1
             /\ \A i \in (Len(events) + 1)..Len(events') : events'[i].type = "log"
         ]_vars
    /\ [](  (pc = "done" /\ CleanupFailed) =>
             /\ Len(Outcomes) = 1
             /\ Outcomes[1].ok = (exc = NoExc)
             /\ Outcomes[1].ok => writes = 1 )

C14_Witness ==
    /\ pc = "done"
    /\ CleanupFailed
    /\ Succeeded
    /\ out_files[generated_exe] = run_no

\* the step in which the exception in flight was raised
FailedIn == IF steps = <<>> THEN "none" ELSE steps[Len(steps)]

BeforeRelocating == { "preparing", "scripting", "specifying", "packaging", "collecting" }

\* C28: a run that fails in preparing, scripting, specifying, packaging or
\* collecting creates, replaces and removes nothing at the output path: from
\* the failure on, the content there is what it was when the run started.
C28_FailureLeavesOutput ==
    (exc # NoExc /\ FailedIn \in BeforeRelocating) =>
        /\ out_files = out_before
        /\ writes = 0

C28_Witness ==
    /\ pc = "done"
    /\ exc # NoExc
    /\ FailedIn = "collecting"
    /\ \E f \in FileNames : out_before[f] # 0
    /\ out_files = out_before

\* =========================================================== the validator
\* utils/helpers.py, validate_project.  A path is "" or a name; the file
\* system is the set of paths that exist and the set of directories that
\* refuse the write probe.

MaxVer == 5

Whitespace == { " ", "\n" }
Digits == { "0", "1" }
VersionChars == Digits \cup { ".", "v" } \cup Whitespace

\* mutant of IsBlank: only the empty string counts as missing
IsEmpty(s) == s = <<>>

\* not s.strip()
IsBlank(s) == \A i \in 1..Len(s) : s[i] \in Whitespace

RECURSIVE DigitGroups(_)
\* \d+(\.\d+)* over the whole of s
DigitGroups(s) ==
    /\ s # <<>>
    /\ s[1] \in Digits
    /\ \/ Len(s) = 1
       \/ /\ s[2] \in Digits
          /\ DigitGroups(Tail(s))
       \/ /\ s[2] = "."
          /\ Len(s) >= 3
          /\ DigitGroups(SubSeq(s, 3, Len(s)))

\* re.match(r'^\d+(\.\d+)*$', s): $ also matches before one final newline
VersionMatches(s) ==
    \/ DigitGroups(s)
    \/ /\ s # <<>>
       /\ s[Len(s)] = "\n"
       /\ DigitGroups(SubSeq(s, 1, Len(s) - 1))

Msg(text, arg) == [text |-> text, arg |-> arg]
Opt(cond, m) == IF cond THEN <<m>> ELSE <<>>

RECURSIVE FileWarnings(_, _)
\* helpers.py lines 74-76: one warning per missing non-directory file entry
FileWarnings(files, fs) ==
    IF files = <<>> THEN <<>>
    ELSE Opt(~Head(files).is_directory /\ Head(files).source_path \notin fs.exists,
             Msg("File not found: ", <<Head(files).source_path>>))
         \o FileWarnings(Tail(files), fs)

\* mutant of ValidationErrors: the checks stop at the first error
ValidationErrorsFirst(p, fs) ==
    IF p.name = <<>> \/ IsBlank(p.name)
    THEN <<Msg("Project name is required", <<>>)>>
    ELSE IF p.version = <<>> \/ IsBlank(p.version)
    THEN <<Msg("Version is required", <<>>)>>
    ELSE IF p.output_dir = ""
    THEN <<Msg("Output directory is required", <<>>)>>
    ELSE Opt(p.output_dir \in fs.exists /\ p.output_dir \in fs.unwritable,
             Msg("Output directory is not writable", <<>>))

\* helpers.py lines 42-59
ValidationErrors(p, fs) ==
    Opt(p.name = <<>> \/ IsBlank(p.name), Msg("Project name is required", <<>>))
    \o Opt(p.version = <<>> \/ IsBlank(p.version), Msg("Version is required", <<>>))
    \o (IF p.output_dir = ""
        THEN <<Msg("Output directory is required", <<>>)>>
        ELSE Opt(p.output_dir \in fs.exists /\ p.output_dir \in fs.unwritable,
                 Msg("Output directory is not writable", <<>>)))

\* helpers.py lines 61-87
ValidationWarnings(p, fs) ==
    Opt(p.icon_path # "" /\ p.icon_path \notin fs.exists,
        Msg("Icon file not found: ", <<p.icon_path>>))
    \o Opt(p.license_enabled /\ p.license_file # "" /\ p.license_file \notin fs.exists,
           Msg("License file not found: ", <<p.license_file>>))
    \o Opt(p.sign_installer /\ p.certificate_path # "" /\ p.certificate_path \notin fs.exists,
           Msg("Certificate file not found: ", <<p.certificate_path>>))
    \o FileWarnings(p.files, fs)
    \o Opt(p.version # <<>> /\ ~VersionMatches(p.version),
           Msg("Version format should be like '1.0.0': ", p.version))
    \o Opt(p.default_install_dir # "" /\ p.default_install_dir # "%PROGRAMFILES%\\{name}",
           Msg("Default install directory should contain {name} placeholder", <<>>))

\* validate_project(project) -> (is_valid, errors, warnings)
validate_project(p, fs) ==
    [is_valid |-> Len(ValidationErrors(p, fs)) = 0,
     errors |-> ValidationErrors(p, fs),
     warnings |-> ValidationWarnings(p, fs)]

\* strings of at most n characters
Strings(chars, n) == UNION { [1..k -> chars] : k \in 0..n }

SourceFile(path, isdir) == [source_path |-> path, is_directory |-> isdir]

\* the projects the validator is tried on
ValNames == { <<>>, <<" ">>, <<"D">> }
ValVersions == { <<>>, <<" ">>, <<"1", ".", "0">>, <<"v", "1">> }

ValProjects(names, versions) ==
    [name : names, version : versions, output_dir : {"", "out"},
     icon_path : {"", "icon.ico"},
     license_enabled : BOOLEAN, license_file : {"", "LICENSE"},
     sign_installer : BOOLEAN, certificate_path : {"", "cert.pfx"},
     files : { <<>>, <<SourceFile("a.bin", FALSE)>>, <<SourceFile("a.bin", TRUE)>> },
     default_install_dir : { "", "%PROGRAMFILES%\\{name}", "C:\\App" }]

\* the paths the project names
Referenced(p) ==
    ({p.output_dir, p.icon_path, p.license_file, p.certificate_path} \ {""})
    \cup { p.files[i].source_path : i \in 1..Len(p.files) }

\* a project and a file system that says which of its paths exist
ValInit(projects) ==
    \E p \in projects :
    \E ex \in SUBSET Referenced(p), unw \in SUBSET ({"out"} \cap Referenced(p)) :
        /\ unw \subseteq ex
        /\ val = [state |-> "called", project |-> p,
                  fs |-> [exists |-> ex, unwritable |-> unw]]

\* the caller receives the result of validate_project
val_return ==
    /\ val.state = "called"
    /\ val' = [state |-> "returned", project |-> val.project, fs |-> val.fs,
               result |-> validate_project(val.project, val.fs)]
    /\ UNCHANGED <<runVars, ui, doc, gen, ed, inst>>

InitValidate ==
    /\ RunParked
    /\ ed = Unused
    /\ inst = Unused
    /\ ValInit(ValProjects(ValNames, ValVersions))
    /\ ui = Unused
    /\ doc = Unused
    /\ gen = Unused

\* every rule together, a few versions
SpecValidate == InitValidate /\ [][val_return]_vars

\* a project that violates no rule, except for its version
VersionProjects ==
    { [name |-> <<"D">>, version |-> v, output_dir |-> "out", icon_path |-> "",
       license_enabled |-> FALSE, license_file |-> "",
       sign_installer |-> FALSE, certificate_path |-> "",
       files |-> <<>>, default_install_dir |-> "%PROGRAMFILES%\\{name}"] :
      v \in Strings(VersionChars, MaxVer) }

InitVersion ==
    /\ RunParked
    /\ ed = Unused
    /\ inst = Unused
    /\ ValInit(VersionProjects)
    /\ val.fs.unwritable = {}
    /\ ui = Unused
    /\ doc = Unused
    /\ gen = Unused

\* the version rule, every version of at most MaxVer characters
SpecVersion == InitVersion /\ [][val_return]_vars

\* number of messages with the given text
Count(msgs, text) == Cardinality({ i \in 1..Len(msgs) : msgs[i].text = text })

HasInk(str) == \E i \in 1..Len(str) : str[i] \notin {" ", "\n"}

\* C15: validate_project evaluates every rule: is_valid is true iff there
\* is no error; an empty name, an empty version, an empty output_dir and an
\* output_dir that exists and refuses the write probe each give exactly one
\* error whatever the other fields are, and there are no other errors; empty
\* name, version and output_dir together give exactly 3 errors.
C15_RulesIndependent ==
    val.state = "returned" =>
        LET p == val.project
            r == val.result
            nameErr == Count(r.errors, "Project name is required")
            verErr == Count(r.errors, "Version is required")
            outErr == Count(r.errors, "Output directory is required")
            probeErr == Count(r.errors, "Output directory is not writable")
        IN  /\ r.is_valid = (r.errors = <<>>)
            /\ nameErr = (IF HasInk(p.name) THEN 0 ELSE 1)
            /\ verErr = (IF HasInk(p.version) THEN 0 ELSE 1)
            /\ outErr = (IF p.output_dir = "" THEN 1 ELSE 0)
            /\ probeErr = (IF p.output_dir # "" /\ p.output_dir \in val.fs.exists
                                /\ p.output_dir \in val.fs.unwritable THEN 1 ELSE 0)
            /\ Len(r.errors) = nameErr + verErr + outErr + probeErr
            /\ (p.name = <<>> /\ p.version = <<>> /\ p.output_dir = "") =>
                  (Len(r.errors) = 3 /\ ~r.is_valid)

C15_Witness ==
    /\ val.state = "returned"
    /\ val.project.name = <<>>
    /\ val.project.version = <<>>
    /\ val.project.output_dir = ""
    /\ Len(val.result.errors) = 3
    /\ ~val.result.is_valid

VersionWarning == "Version format should be like '1.0.0': "

\* C16 as stated: every non-empty version gives no error, and exactly one
\* format warning when it is not digits optionally followed by
\* dot-separated groups of digits, none when it is; strings made only of
\* whitespace included.
C16_VersionRule_AsStated ==
    (val.state = "returned" /\ val.project.version # <<>>) =>
        /\ Count(val.result.errors, "Version is required") = 0
        /\ Count(val.result.warnings, VersionWarning) =
              (IF DigitGroups(val.project.version) THEN 0 ELSE 1)

\* C16 (amended): a version with a character that is not whitespace gives
\* no error, a version made only of whitespace gives the 'Version is
\* required' error; a non-empty version gives exactly one format warning,
\* unless it is digits optionally followed by dot-separated groups of
\* digits, with or without one final newline, and then none.
C16_VersionRule ==
    (val.state = "returned" /\ val.project.version # <<>>) =>
        LET v == val.project.version
            body == IF v[Len(v)] = "\n" THEN SubSeq(v, 1, Len(v) - 1) ELSE v
        IN  /\ Count(val.result.errors, "Version is required") =
                  (IF HasInk(v) THEN 0 ELSE 1)
            /\ Count(val.result.warnings, VersionWarning) =
                  (IF DigitGroups(v) \/ DigitGroups(body) THEN 0 ELSE 1)
            /\ v \in { <<"1", ".", "0">>, <<"1", ".", "0", ".", "0">> } =>
                  (val.result.warnings = <<>> /\ val.result.is_valid)
            /\ v = <<"v", "1", ".", "0">> =>
                  (Len(val.result.warnings) = 1 /\ val.result.is_valid)

C16_Witness ==
    /\ val.state = "returned"
    /\ val.project.version = <<"v", "1", ".", "0">>
    /\ Count(val.result.warnings, VersionWarning) = 1
    /\ val.result.is_valid

\* ================================================ the installer-script text
\* core/generator.py, _generate_installer_script, and the to_dict methods of
\* core/models.py.  A string is a sequence of characters; "U+00E9" and
\* "U+1F600" stand for one character each (inside and outside the Basic
\* Multilingual Plane), "U+D83D" and "U+DE00" for the two surrogate code
\* points.  A text literal is a sequence of tokens.

MaxList == 2

\* repr(str): quotes and backslashes are escaped, other characters kept
PyReprChar(c) ==
    IF c = "'" THEN <<"\\'">> ELSE IF c = "\\" THEN <<"\\\\">> ELSE <<c>>
RECURSIVE PyReprChars(_)
PyReprChars(str) ==
    IF str = <<>> THEN <<>> ELSE PyReprChar(Head(str)) \o PyReprChars(Tail(str))
PyRepr(str) == <<"'">> \o PyReprChars(str) \o <<"'">>
PyReprBool(b) == IF b THEN <<"True">> ELSE <<"False">>

\* json.dumps(str), ensure_ascii: characters outside ASCII become \uXXXX
\* escapes, one escape per UTF-16 code unit
JsonChar(c) ==
    CASE c = "\"" -> <<"\\\"">>
      [] c = "\\" -> <<"\\\\">>
      [] c = "U+00E9" -> <<"\\u00e9">>
      [] c = "U+1F600" -> <<"\\ud83d", "\\ude00">>
      [] OTHER -> <<c>>
RECURSIVE JsonChars(_)
JsonChars(str) ==
    IF str = <<>> THEN <<>> ELSE JsonChar(Head(str)) \o JsonChars(Tail(str))
JsonDumps(str) == <<"\"">> \o JsonChars(str) \o <<"\"">>

\* the character a token of a Python string literal denotes
PyUnescape(t) ==
    CASE t = "\\'" -> "'"
      [] t = "\\\"" -> "\""
      [] t = "\\\\" -> "\\"
      [] t = "\\u00e9" -> "U+00E9"
      [] t = "\\ud83d" -> "U+D83D"
      [] t = "\\ude00" -> "U+DE00"
      [] OTHER -> t

\* the value of a Python string literal: the text between its quotes
PyEvalStr(lit) == [i \in 1..(Len(lit) - 2) |-> PyUnescape(lit[i + 1])]
PyEvalBool(lit) == lit = <<"True">>

\* ------------------------------------------------------------- entities
ScriptElementTypeValue(t) ==
    CASE t = "RUN_SCRIPT" -> <<"run_script">>
      [] t = "EXECUTE_COMMAND" -> <<"execute_command">>

\* models.py FileEntry, with its defaults
FileEntry(source, install, hash) ==
    [source_path |-> source, install_path |-> install, is_binary |-> FALSE,
     is_directory |-> FALSE, compress |-> TRUE, hash |-> hash,
     version |-> <<>>, description |-> <<>>]

\* models.py ShortcutConfig
ShortcutConfig(name, target, location) ==
    [name |-> name, target |-> target, icon |-> <<>>, working_dir |-> <<>>,
     arguments |-> <<>>, location |-> location, description |-> <<>>]

\* models.py RegistryEntry
RegistryEntry(key, data) ==
    [hive |-> <<"HKEY_CURRENT_USER">>, key |-> key, value_name |-> <<>>,
     value_type |-> <<"REG_SZ">>, value_data |-> data, action |-> <<"create">>]

\* models.py ScriptElement
ScriptElement(type, name, params, id) ==
    [type |-> type, name |-> name, parameters |-> params, id |-> id,
     enabled |-> TRUE, critical |-> FALSE]

\* models.py Dependency
Dependency(name) ==
    [name |-> name, version |-> <<>>, installer_path |-> <<>>,
     check_command |-> <<>>, required |-> TRUE]

\* FileEntry.to_dict, and asdict of the plain dataclasses
to_dict(e) == e

\* ScriptElement.to_dict: the type is written by its value
ScriptElement_to_dict(e) == [e EXCEPT !.type = ScriptElementTypeValue(e.type)]

BoolKeys == { "is_binary", "is_directory", "compress", "enabled", "critical", "required" }

\* repr(dict): every value by its repr, a nested dict of strings likewise
ReprDict(dct) ==
    [k \in DOMAIN dct |->
        IF k \in BoolKeys THEN PyReprBool(dct[k])
        ELSE IF k = "parameters"
             THEN [j \in DOMAIN dct[k] |-> PyRepr(dct[k][j])]
             ELSE PyRepr(dct[k])]

\* the value of a dict literal
EvalDict(lit) ==
    [k \in DOMAIN lit |->
        IF k \in BoolKeys THEN PyEvalBool(lit[k])
        ELSE IF k = "parameters"
             THEN [j \in DOMAIN lit[k] |-> PyEvalStr(lit[k][j])]
             ELSE PyEvalStr(lit[k])]

\* [e.to_dict() for e in entries]
Dicts(entries) == [i \in 1..Len(entries) |-> to_dict(entries[i])]
ScriptDicts(entries) == [i \in 1..Len(entries) |-> ScriptElement_to_dict(entries[i])]

\* repr of a list of dicts
ReprList(dicts) == [i \in 1..Len(dicts) |-> ReprDict(dicts[i])]
EvalList(lit) == [i \in 1..Len(lit) |-> EvalDict(lit[i])]

\* _generate_installer_script: the data lines of the emitted program
generate_installer_script(p) ==
    [FILES_DATA |-> ReprList(Dicts(p.files)),
     SHORTCUTS |-> ReprList(Dicts(p.shortcuts)),
     REGISTRY_ENTRIES |-> ReprList(Dicts(p.registry_entries)),
     SCRIPT_ELEMENTS |-> ReprList(ScriptDicts(p.script_elements)),
     DEPENDENCIES |-> ReprList(Dicts(p.dependencies)),
     PROJECT_NAME |-> JsonDumps(IF p.name = <<>> THEN <<"M", "y", " ", "A", "p", "p">> ELSE p.name),
     PROJECT_VERSION |-> JsonDumps(p.version),
     PROJECT_DESCRIPTION |-> JsonDumps(p.description),
     CREATE_UNINSTALLER |-> <<"True">>]

\* lists of at most MaxList entries
Lists(entries) == UNION { [1..n -> entries] : n \in 0..MaxList }

GenProjects ==
    [name : { <<"D">>, <<"D", "\"">>, <<"U+00E9">>, <<"U+1F600">> },
     version : { <<"1", ".", "0">> },
     description : { <<>>, <<"U+00E9">> },
     files : Lists({ FileEntry(<<"a">>, <<"a">>, <<>>),
                     FileEntry(<<"b", "'">>, <<"b">>, <<"sha256">>) }),
     shortcuts : Lists({ ShortcutConfig(<<"S">>, <<"a">>, <<"desktop">>) }),
     registry_entries : Lists({ RegistryEntry(<<"Software", "\\", "D">>, <<"1">>) }),
     script_elements :
         Lists({ ScriptElement("RUN_SCRIPT", <<"post">>,
                               [event |-> <<"post_install">>, type |-> <<"python">>,
                                content |-> <<"print('x')">>], <<"id1">>),
                 ScriptElement("EXECUTE_COMMAND", <<"cmd">>, <<>>, <<"id2">>) }),
     dependencies : Lists({ Dependency(<<"requests">>) })]

\* the synthesizer returns the text for the project
gen_return ==
    /\ gen.state = "called"
    /\ gen' = [state |-> "returned", project |-> gen.project,
               text |-> generate_installer_script(gen.project)]
    /\ UNCHANGED <<runVars, val, ui, doc, ed, inst>>

InitGen ==
    /\ RunParked
    /\ ed = Unused
    /\ inst = Unused
    /\ val = Unused
    /\ ui = Unused
    /\ doc = Unused
    /\ \E p \in GenProjects : gen = [state |-> "called", project |-> p]

SpecGen == InitGen /\ [][gen_return]_vars

\* C19: the installer source embeds the project's data faithfully: each of
\* FILES_DATA, SHORTCUTS, REGISTRY_ENTRIES, SCRIPT_ELEMENTS and DEPENDENCIES
\* evaluates to one serialized element per project entry, in the project's
\* list order, and the embedded name, version and description evaluate to
\* the project's.
C19_EmbedsFaithfully ==
    gen.state = "returned" =>
        LET p == gen.project
            t == gen.text
        IN  /\ EvalList(t.FILES_DATA) = Dicts(p.files)
            /\ EvalList(t.SHORTCUTS) = Dicts(p.shortcuts)
            /\ EvalList(t.REGISTRY_ENTRIES) = Dicts(p.registry_entries)
            /\ EvalList(t.SCRIPT_ELEMENTS) = ScriptDicts(p.script_elements)
            /\ EvalList(t.DEPENDENCIES) = Dicts(p.dependencies)
            /\ PyEvalStr(t.PROJECT_NAME) = p.name
            /\ PyEvalStr(t.PROJECT_VERSION) = p.version
            /\ PyEvalStr(t.PROJECT_DESCRIPTION) = p.description

\* ================================================ the persisted project
\* core/models.py (to_dict / from_dict), core/project_manager.py and the
\* editing handlers of ui/main_window.py that create entries.  One source
\* file "a" is followed: it is absent, present but unreadable ("locked"),
\* or readable with content "v1" or "v2".

MaxSaves == 2
MaxFiles == 2

DocStates == { "edited", "saved", "loaded", "loaded_older" }

\* FileEntry.calculate_hash: "" for a directory, a missing source, or when
\* reading raises
calculate_hash(e, source) ==
    IF e.is_directory \/ source = "absent" THEN <<>>
    ELSE IF source = "locked" THEN <<>>
    ELSE (<<"sha256", source>>)

\* FileEntry.__post_init__, run by every construction of a FileEntry
FileEntry_post_init(e, source) ==
    IF e.hash = <<>> /\ source # "absent" /\ ~e.is_directory
    THEN [e EXCEPT !.hash = calculate_hash(e, source)]
    ELSE e

\* FileEntry.from_dict: cls(**data), a construction
FileEntry_from_dict(data, source) == FileEntry_post_init(data, source)

\* ScriptElement.from_dict; the documents followed here carry every key
ScriptElement_from_dict(data) == [data EXCEPT !.type = (CASE data.type = <<"run_script">> -> "RUN_SCRIPT"
      [] data.type = <<"execute_command">> -> "EXECUTE_COMMAND")]

DefaultCopyright == <<"Copyright (c) ", "2026">>
DefaultTitle == <<"{name}", " Setup">>

\* ProjectConfig(), the fields followed
NewProject ==
    [name |-> <<"New Project">>, company |-> <<>>, copyright |-> <<>>,
     create_uninstaller |-> TRUE, silent_mode |-> FALSE,
     overwrite_existing |-> TRUE, installer_title |-> DefaultTitle,
     installer_style |-> <<"default">>, modified |-> 0,
     files |-> <<>>, script_elements |-> <<>>]

\* ProjectConfig.to_dict
ProjectConfig_to_dict(p) ==
    [p EXCEPT !.files = Dicts(p.files),
              !.script_elements = ScriptDicts(p.script_elements)]

\* data.get(key, default) / the "if key not in updated_data" backfill
Get(data, key, default) == IF key \in DOMAIN data THEN data[key] ELSE default

\* ProjectConfig.from_dict
ProjectConfig_from_dict(data, source) ==
    [name |-> data.name,
     company |-> Get(data, "company", <<>>),
     copyright |-> Get(data, "copyright", DefaultCopyright),
     create_uninstaller |-> Get(data, "create_uninstaller", TRUE),
     silent_mode |-> Get(data, "silent_mode", FALSE),
     overwrite_existing |-> Get(data, "overwrite_existing", TRUE),
     installer_title |-> Get(data, "installer_title", DefaultTitle),
     installer_style |-> Get(data, "installer_style", <<"default">>),
     modified |-> data.modified,
     files |-> [i \in 1..Len(data.files) |-> FileEntry_from_dict(data.files[i], source)],
     script_elements |->
         [i \in 1..Len(data.script_elements) |->
             ScriptElement_from_dict(data.script_elements[i])]]

\* a document written before the backfilled fields existed
OlderDocument ==
    [name |-> <<"Old">>, modified |-> 0, files |-> <<>>,
     script_elements |-> << [type |-> <<"run_script">>, name |-> <<"post">>,
                             parameters |-> <<>>, id |-> <<"id0">>,
                             enabled |-> TRUE, critical |-> FALSE] >>]

NoDocument == [name |-> <<>>]
ElementIds == { <<"id1">> }

\* main_window.add_file: an entry for an existing path
add_file ==
    /\ doc.state \in DocStates
    /\ doc.source # "absent"
    /\ Len(doc.project.files) < MaxFiles
    /\ LET e == FileEntry_post_init(FileEntry(<<"a">>, <<"a">>, <<>>), doc.source)
       IN  doc' = [doc EXCEPT !.project.files = Append(@, e),
                              !.born = Append(@, calculate_hash(e, doc.source)),
                              !.state = "edited"]
    /\ UNCHANGED <<runVars, val, ui, gen, ed, inst>>

\* main_window.add_script_element: the element gets a fresh id
add_script_element ==
    /\ doc.state \in DocStates
    /\ \E id \in ElementIds :
        /\ \A i \in 1..Len(doc.project.script_elements) :
               doc.project.script_elements[i].id # id
        /\ doc' = [doc EXCEPT
                     !.project.script_elements =
                         Append(@, ScriptElement("RUN_SCRIPT", <<"post">>, <<>>, id)),
                     !.state = "edited"]
    /\ UNCHANGED <<runVars, val, ui, gen, ed, inst>>

\* main_window.update_project_from_ui: the user edits a backfilled field
edit_company ==
    /\ doc.state \in DocStates
    /\ doc.project.company = <<>>
    /\ doc' = [doc EXCEPT !.project.company = <<"ACME">>,
                          !.project.silent_mode = TRUE,
                          !.state = "edited"]
    /\ UNCHANGED <<runVars, val, ui, gen, ed, inst>>

\* the environment: the source file appears, becomes readable, is rewritten
SourceNext(src) ==
    CASE src = "absent" -> { "locked", "v1" }
      [] src = "locked" -> { "v1" }
      [] src = "v1" -> { "v2" }
      [] OTHER -> {}

source_changes ==
    /\ doc.state \in DocStates
    /\ \E src \in SourceNext(doc.source) :
        doc' = [doc EXCEPT !.source = src]
    /\ UNCHANGED <<runVars, val, ui, gen, ed, inst>>

\* ProjectManager.save_project: stamps 'modified', then writes to_dict
save_project ==
    /\ doc.state \in DocStates
    /\ doc.now < MaxSaves
    /\ LET p == [doc.project EXCEPT !.modified = doc.now + 1]
       IN  doc' = [doc EXCEPT !.project = p,
                              !.saved = ProjectConfig_to_dict(p),
                              !.saved_from = p,
                              !.saved_born = doc.born,
                              !.now = @ + 1,
                              !.state = "saved"]
    /\ UNCHANGED <<runVars, val, ui, gen, ed, inst>>

\* ProjectManager.load_project of the saved document
load_project ==
    /\ doc.state \in DocStates
    /\ doc.saved # NoDocument
    /\ doc' = [doc EXCEPT !.project = ProjectConfig_from_dict(doc.saved, doc.source),
                          !.born = doc.saved_born,
                          !.state = "loaded"]
    /\ UNCHANGED <<runVars, val, ui, gen, ed, inst>>

\* ProjectManager.load_project of an older-shaped document
load_older_project ==
    /\ doc.state \in DocStates
    /\ doc' = [doc EXCEPT !.project = ProjectConfig_from_dict(OlderDocument, doc.source),
                          !.born = <<>>,
                          !.state = "loaded_older"]
    /\ UNCHANGED <<runVars, val, ui, gen, ed, inst>>

NextData ==
    \/ add_file
    \/ add_script_element
    \/ edit_company
    \/ source_changes
    \/ save_project
    \/ load_project
    \/ load_older_project

InitData ==
    /\ RunParked
    /\ ed = Unused
    /\ inst = Unused
    /\ val = Unused
    /\ ui = Unused
    /\ gen = Unused
    /\ (\E src \in { "absent", "locked", "v1", "v2" } :
         doc = [state |-> "edited", source |-> src, project |-> NewProject,
                born |-> <<>>, saved |-> NoDocument, saved_from |-> NewProject,
                saved_born |-> <<>>,
                now |-> 0])

SpecData == InitData /\ [][NextData]_vars

\* C18: FileEntry.hash is fixed at entry creation: in every reachable state
\* the hash of every file entry of the project is empty or the digest the
\* source had when the entry was created; saving and loading never recompute
\* it, even when the source appears or changes afterwards.
C18_HashFixedAtCreation ==
    doc.state \in DocStates =>
        /\ Len(doc.born) = Len(doc.project.files)
        /\ \A i \in 1..Len(doc.project.files) :
               doc.project.files[i].hash \in { <<>>, doc.born[i] }

\* C17: round trip: the project read back from a saved document equals the
\* project that was saved, field for field and entry for entry in order; a
\* document lacking the backfilled keys is read with their defaults.
C17_RoundTrip ==
    /\ doc.state = "loaded" =>
           doc.project = doc.saved_from
    /\ doc.state = "loaded_older" =>
           /\ doc.project.company = <<>>
           /\ doc.project.copyright = DefaultCopyright
           /\ doc.project.create_uninstaller = TRUE
           /\ doc.project.silent_mode = FALSE
           /\ doc.project.overwrite_existing = TRUE
           /\ doc.project.installer_title = DefaultTitle
           /\ doc.project.installer_style = <<"default">>
           /\ doc.project.script_elements[1].id = <<"id0">>

\* ================================================ the main window
\* ui/main_window.py: the form, the project it edits in place, the three
\* user actions connected to generate_installer, and the generator threads
\* it starts.  A thread is followed from start() to the handling of its
\* finished signal; what it writes is computed from the project object it
\* was handed, at the moment it writes.

MaxThreads == 2
MaxShortcuts == 1

\* the fields of self.project the handlers and the thread read
UiProject(name, version, output_dir) ==
    [name |-> name, version |-> version, output_dir |-> output_dir,
     description |-> <<>>, icon_path |-> "", license_enabled |-> FALSE,
     license_file |-> "", sign_installer |-> FALSE, certificate_path |-> "",
     files |-> <<>>, default_install_dir |-> "%PROGRAMFILES%\\{name}",
     compression |-> "upx", shortcuts |-> <<>>, registry_entries |-> <<>>,
     script_elements |-> <<>>, dependencies |-> <<>>]

\* update_project_from_ui: the widgets' values are stored into the project
update_project_from_ui(p, form) ==
    [p EXCEPT !.name = form.name, !.version = form.version,
              !.output_dir = form.output_dir]

\* the two texts the thread writes into its workspace
Artifacts(p) ==
    [installer_py |-> generate_installer_script(p),
     installer_spec |-> name_safe(p.name) \o <<"_Setup">>]

NoArtifacts == [installer_py |-> <<>>, installer_spec |-> <<>>]

\* InstallerGeneratorThread(self.project, self.project.output_dir).start()
NewThread(p) ==
    [state |-> "started", output_path |-> p.output_dir, started_with |-> p,
     written |-> NoArtifacts]

\* a thread whose outcome has been handled: nothing of it is read any more
HandledThread ==
    [state |-> "handled", output_path |-> "", started_with |-> UiProject(<<>>, <<>>, ""),
     written |-> NoArtifacts]

NoCall == [via |-> "none", errors |-> <<>>, warnings |-> <<>>, reply |-> "none",
           started |-> FALSE]

\* mutant of GenerateInstaller: the answer to the warnings is not looked at
GenerateInstallerUnasked(via) ==
    /\ ui.state = "shown"
    /\ Len(ui.threads) < MaxThreads
    /\ LET p == update_project_from_ui(ui.project, ui.form)
           r == validate_project(p, ui.fs)
       IN  \E reply \in (IF r.is_valid /\ r.warnings # <<>> THEN {"Yes", "No"} ELSE {"none"}),
              pyinstaller \in BOOLEAN, upx \in {"found", "Yes", "No"} :
           LET call(started) == [via |-> via, errors |-> r.errors, warnings |-> r.warnings,
                                 reply |-> reply, started |-> started]
               made == [ui.fs EXCEPT !.exists = @ \cup {p.output_dir}]
           IN  IF ~r.is_valid
               THEN ui' = [ui EXCEPT !.project = p, !.last = call(FALSE)]
               ELSE IF ~pyinstaller \/ (p.compression = "upx" /\ upx = "No")
               THEN ui' = [ui EXCEPT !.project = p, !.fs = made, !.last = call(FALSE)]
               ELSE ui' = [ui EXCEPT !.project = p, !.fs = made,
                                     !.generate_btn = FALSE,
                                     !.threads = Append(@, NewThread(p)),
                                     !.last = call(TRUE)]
    /\ UNCHANGED <<runVars, val, doc, gen, ed, inst>>

\* MainWindow.generate_installer, entered through the widget 'via'
GenerateInstaller(via) ==
    /\ ui.state = "shown"
    /\ Len(ui.threads) < MaxThreads
    /\ LET p == update_project_from_ui(ui.project, ui.form)
           r == validate_project(p, ui.fs)
       IN  \E reply \in (IF r.is_valid /\ r.warnings # <<>> THEN {"Yes", "No"} ELSE {"none"}),
              pyinstaller \in BOOLEAN, upx \in {"found", "Yes", "No"} :
           LET call(started) == [via |-> via, errors |-> r.errors, warnings |-> r.warnings,
                                 reply |-> reply, started |-> started]
               made == [ui.fs EXCEPT !.exists = @ \cup {p.output_dir}]
           IN  IF ~r.is_valid
               THEN ui' = [ui EXCEPT !.project = p, !.last = call(FALSE)]
               ELSE IF r.warnings # <<>> /\ reply # "Yes"
               THEN ui' = [ui EXCEPT !.project = p, !.last = call(FALSE)]
               ELSE IF p.output_dir = ""
               THEN ui' = [ui EXCEPT !.project = p, !.last = call(FALSE)]
               ELSE IF ~pyinstaller \/ (p.compression = "upx" /\ upx = "No")
               THEN ui' = [ui EXCEPT !.project = p, !.fs = made, !.last = call(FALSE)]
               ELSE ui' = [ui EXCEPT !.project = p, !.fs = made,
                                     !.generate_btn = FALSE,
                                     !.threads = Append(@, NewThread(p)),
                                     !.last = call(TRUE)]
    /\ UNCHANGED <<runVars, val, doc, gen, ed, inst>>

\* generate_btn.clicked: a disabled button does not emit
click_generate_btn == ui.state = "shown" /\ ui.generate_btn /\ GenerateInstaller("generate_btn")

\* Build menu, 'Generate Installer' (F5): the action is never disabled
trigger_generate_menu == ui.state = "shown" /\ GenerateInstaller("menu")

\* toolbar, 'Generate': the action is never disabled
trigger_generate_toolbar == ui.state = "shown" /\ GenerateInstaller("toolbar")

\* the user types into the name, version or output-directory field
edit_form ==
    /\ ui.state = "shown"
    /\ \E f \in [name : { <<"D">> }, version : { <<"1", ".", "0">>, <<"v", "1">> }, output_dir : { "", "out" }] :
        /\ f # ui.form
        /\ \/ f.name = ui.form.name /\ f.version = ui.form.version
           \/ f.name = ui.form.name /\ f.output_dir = ui.form.output_dir
           \/ f.version = ui.form.version /\ f.output_dir = ui.form.output_dir
        /\ ui' = [ui EXCEPT !.form = f, !.last = NoCall]
    /\ UNCHANGED <<runVars, val, doc, gen, ed, inst>>

\* MainWindow.add_shortcut: appended to the project's own list
add_shortcut ==
    /\ ui.state = "shown"
    /\ Len(ui.project.shortcuts) < MaxShortcuts
    /\ ui' = [ui EXCEPT !.project.shortcuts =
                            Append(@, ShortcutConfig(<<"S">>, <<"a">>, <<"desktop">>)),
                        !.last = NoCall]
    /\ UNCHANGED <<runVars, val, doc, gen, ed, inst>>

\* run: installer.py and installer.spec are written from self.project as it
\* is now (lines 36-48); the thread then emits finished (lines 50-59), which
\* is queued to the window's thread
thread_run(t) ==
    /\ ui.state = "shown"
    /\ t \in 1..Len(ui.threads)
    /\ ui.threads[t].state = "started"
    /\ ui' = [ui EXCEPT !.threads[t].state = "finished",
                        !.threads[t].written = Artifacts(ui.project),
                        !.last = NoCall]
    /\ UNCHANGED <<runVars, val, doc, gen, ed, inst>>

\* MainWindow.generation_finished
generation_finished(t) ==
    /\ ui.state = "shown"
    /\ t \in 1..Len(ui.threads)
    /\ ui.threads[t].state = "finished"
    /\ ui' = [ui EXCEPT !.threads[t] = HandledThread,
                        !.generate_btn = TRUE,
                        !.last = NoCall]
    /\ UNCHANGED <<runVars, val, doc, gen, ed, inst>>

NextUI ==
    \/ click_generate_btn
    \/ trigger_generate_menu
    \/ trigger_generate_toolbar
    \/ edit_form
    \/ add_shortcut
    \/ \E t \in 1..MaxThreads : thread_run(t)
    \/ \E t \in 1..MaxThreads : generation_finished(t)

InitUI ==
    /\ RunParked
    /\ ed = Unused
    /\ inst = Unused
    /\ val = Unused
    /\ doc = Unused
    /\ gen = Unused
    /\ (\E unw \in SUBSET {"out"} :
         ui = [state |-> "shown",
               form |-> [name |-> <<"D">>, version |-> <<"1", ".", "0">>, output_dir |-> ""],
               project |-> UiProject(<<"D">>, <<"1", ".", "0">>, ""),
               generate_btn |-> TRUE,
               fs |-> [exists |-> unw, unwritable |-> unw],
               threads |-> <<>>,
               last |-> NoCall])

SpecUI == InitUI /\ [][NextUI]_vars

\* the threads started and not yet handled by generation_finished
InFlight == { t \in 1..Len(ui.threads) : ui.threads[t].state # "handled" }

\* C11: at most one generation run is in flight at any time: between the
\* start of a generator thread and the handling of its outcome, no user
\* action starts a second one.
C11_OneRunInFlight == ui.state = "shown" => Cardinality(InFlight) <= 1

\* C12: the project handed to a run is a snapshot: what the thread writes
\* into its workspace is the text of the project as it was when the thread
\* was started, whatever the window does to the project in between.
C12_ProjectIsSnapshot ==
    ui.state = "shown" =>
        \A t \in 1..Len(ui.threads) :
            ui.threads[t].state = "finished" =>
                ui.threads[t].written = Artifacts(ui.threads[t].started_with)

\* C13: validation gates generation: a call of generate_installer starts a
\* thread only if validate_project gave no error and, when it gave warnings,
\* the user answered Yes; when it gave errors or the warnings were declined,
\* the threads and the file system are as they were before the call.
C13_ValidationGates ==
    [][ (ui.state = "shown" /\ ui'.last.via # "none") =>
            LET c == ui'.last
                refused == c.errors # <<>> \/ (c.warnings # <<>> /\ c.reply # "Yes")
            IN  /\ Len(ui'.threads) > Len(ui.threads) => ~refused
                /\ refused => (ui'.threads = ui.threads /\ ui'.fs = ui.fs)
                /\ c.started = (Len(ui'.threads) > Len(ui.threads))
      ]_vars

C13_Witness ==
    /\ ui.state = "shown"
    /\ ui.last.via = "menu"
    /\ ui.last.errors = <<>>
    /\ ui.last.warnings # <<>>
    /\ ui.last.reply = "No"
    /\ ~ui.last.started
    /\ "out" \notin ui.fs.exists

\* ================================================ the script-element list
\* ui/main_window.py, lines 1163-1229, over core/models.py ScriptElement.
\* Row i of the list widget holds the object at position i of
\* project.script_elements (update_scripts_list); a handler is entered with
\* one row selected.

MaxElems == 3
MaxEdits == 1

\* ScriptElement.__eq__: by id alone
ScriptElement_eq(a, b) == a.id = b.id

\* ScriptElement.__hash__: hash((type.value, name, id)); the hash of a tuple
\* is taken to tell different tuples apart
ScriptElement_hash(a) == <<ScriptElementTypeValue(a.type), a.name, a.id>>

\* list.index(x): the first position whose element equals x
ListIndex(list, x) ==
    CHOOSE j \in 1..Len(list) :
        /\ ScriptElement_eq(list[j], x)
        /\ \A k \in 1..(j - 1) : ~ScriptElement_eq(list[k], x)

\* list[i], list[j] = list[j], list[i]
Swap(list, i, j) == [list EXCEPT ![i] = list[j], ![j] = list[i]]

\* del list[i]
DeleteAt(list, i) == [k \in 1..(Len(list) - 1) |-> IF k < i THEN list[k] ELSE list[k + 1]]

\* the elements a document may hold: two of them may share an id
EdElements ==
    { ScriptElement("RUN_SCRIPT", n, <<>>, id) :
        n \in { <<"p">>, <<"q">> }, id \in { <<"id1">>, <<"id2">> } }

Edited(op, row, list) ==
    ed' = [ed EXCEPT !.script_elements = list,
                     !.last = [op |-> op, row |-> row, before |-> ed.script_elements]]

\* MainWindow.move_script_up
move_script_up ==
    /\ ed.state = "open"
    /\ \E row \in 1..Len(ed.script_elements) :
        LET script == ed.script_elements[row]
            index == ListIndex(ed.script_elements, script)
        IN  Edited("move_script_up", row,
                   IF index > 1 THEN Swap(ed.script_elements, index, index - 1)
                   ELSE ed.script_elements)
    /\ UNCHANGED <<runVars, val, ui, doc, gen, inst>>

\* MainWindow.move_script_down
move_script_down ==
    /\ ed.state = "open"
    /\ \E row \in 1..Len(ed.script_elements) :
        LET script == ed.script_elements[row]
            index == ListIndex(ed.script_elements, script)
        IN  Edited("move_script_down", row,
                   IF index < Len(ed.script_elements)
                   THEN Swap(ed.script_elements, index, index + 1)
                   ELSE ed.script_elements)
    /\ UNCHANGED <<runVars, val, ui, doc, gen, inst>>

\* MainWindow.edit_script_element, the dialog accepted
edit_script_element ==
    /\ ed.state = "open"
    /\ ed.edits < MaxEdits
    /\ \E row \in 1..Len(ed.script_elements) :
        LET script == ed.script_elements[row]
            index == ListIndex(ed.script_elements, script)
        IN  ed' = [ed EXCEPT !.script_elements[index] = (ScriptElement("EXECUTE_COMMAND", <<"edited">>, <<>>, <<"new", (ed.edits + 1)>>)),
                             !.edits = @ + 1,
                             !.last = [op |-> "edit_script_element", row |-> row,
                                       before |-> ed.script_elements]]
    /\ UNCHANGED <<runVars, val, ui, doc, gen, inst>>

\* MainWindow.remove_selected_scripts, one row selected
remove_selected_scripts ==
    /\ ed.state = "open"
    /\ \E row \in 1..Len(ed.script_elements) :
        LET script == ed.script_elements[row]
            index == ListIndex(ed.script_elements, script)
        IN  Edited("remove_selected_scripts", row, DeleteAt(ed.script_elements, index))
    /\ UNCHANGED <<runVars, val, ui, doc, gen, inst>>

NextEd ==
    \/ move_script_up
    \/ move_script_down
    \/ edit_script_element
    \/ remove_selected_scripts

InitEd ==
    /\ RunInit({<<"D">>})
    /\ out_exists = FALSE
    /\ val = Unused
    /\ ui = Unused
    /\ doc = Unused
    /\ gen = Unused
    /\ inst = Unused
    /\ (\E list \in UNION { [1..n -> EdElements] : n \in 1..MaxElems } :
         ed = [state |-> "open", script_elements |-> list, edits |-> 0, last |-> [op |-> "none", row |-> 0, before |-> <<>>]])

SpecEd == InitEd /\ [][NextEd]_vars

\* C29: equality and hashing of script elements are consistent: any two
\* elements that are equal (same id) have the same hash.
C29_EqImpliesSameHash ==
    ed.state = "open" =>
        \A i, j \in 1..Len(ed.script_elements) :
            ScriptElement_eq(ed.script_elements[i], ed.script_elements[j]) =>
                ScriptElement_hash(ed.script_elements[i]) = ScriptElement_hash(ed.script_elements[j])

\* C30: whatever the list holds (two elements may share an id), a move
\* shifts exactly the element of the selected row by one position, or
\* changes nothing at the boundary; an edit replaces exactly the element of
\* the selected row; a remove deletes exactly the element of the selected
\* row; every other element keeps its place relative to the others.
C30_SelectedElementOnly ==
    (ed.state = "open" /\ ed.last.op # "none") =>
        LET before == ed.last.before
            row == ed.last.row
            now == ed.script_elements
        IN  CASE ed.last.op = "move_script_up" ->
                    now = (IF row > 1 THEN Swap(before, row, row - 1) ELSE before)
              [] ed.last.op = "move_script_down" ->
                    now = (IF row < Len(before) THEN Swap(before, row, row + 1) ELSE before)
              [] ed.last.op = "edit_script_element" ->
                    /\ Len(now) = Len(before)
                    /\ \A k \in 1..Len(before) : k # row => now[k] = before[k]
                    /\ now[row] \notin EdElements
              [] ed.last.op = "remove_selected_scripts" ->
                    now = DeleteAt(before, row)

\* ================================================ the generated installer
\* core/generator.py, lines 136-426: the program _generate_installer_script
\* emits.  InstallThread.run is followed on a target machine, one handler
\* call at a time, over the data lines of the emitted text as Python
\* evaluates them.

MaxEntries == 3

\* what the emitted data lines evaluate to
Embedded(p) ==
    LET t == generate_installer_script(p)
    IN  [FILES_DATA |-> EvalList(t.FILES_DATA),
         SHORTCUTS |-> EvalList(t.SHORTCUTS),
         REGISTRY_ENTRIES |-> EvalList(t.REGISTRY_ENTRIES),
         SCRIPT_ELEMENTS |-> EvalList(t.SCRIPT_ELEMENTS),
         DEPENDENCIES |-> EvalList(t.DEPENDENCIES),
         CREATE_UNINSTALLER |-> PyEvalBool(t.CREATE_UNINSTALLER)]

ListsUpTo(entries, n) == UNION { [1..k -> entries] : k \in 0..n }

\* the projects an installer is generated from: at most MaxEntries entries
InstProjects ==
    { p \in [name : { <<"D">> }, version : { <<"1", ".", "0">> }, description : { <<>> },
             create_uninstaller : BOOLEAN,
             files : ListsUpTo({ FileEntry(<<"a">>, <<"a">>, <<>>),
                                 [FileEntry(<<"d">>, <<"d">>, <<>>) EXCEPT !.is_directory = TRUE] }, 2),
             shortcuts : ListsUpTo({ ShortcutConfig(<<"S">>, <<"a">>, loc) :
                                     loc \in { <<"desktop">>, <<"start_menu">>, <<"both">> } }, 2),
             registry_entries : ListsUpTo({ RegistryEntry(<<"Software", "\\", "D">>, <<"1">>) }, 2),
             script_elements : ListsUpTo({ ScriptElement("RUN_SCRIPT", <<"post">>,
                                                         [event |-> <<"post_install">>, type |-> <<"python">>,
                                                          content |-> <<"print('x')">>], <<"id1">>),
                                           ScriptElement("EXECUTE_COMMAND", <<"pre">>,
                                                         [event |-> <<"pre_install">>, type |-> <<"cmd">>,
                                                          content |-> <<"echo">>], <<"id2">>) }, 2),
             dependencies : ListsUpTo({ Dependency(<<"requests">>) }, 2)] :
        Len(p.files) + Len(p.shortcuts) + Len(p.registry_entries)
          + Len(p.script_elements) + Len(p.dependencies) <= MaxEntries }

\* the handler call being made, and the one that raised
Call(handler) == [handler |-> handler, index |-> inst.i]

\* the except clause of run: finished_signal.emit(False, "Installation failed: ...")
Abort(in, call) ==
    [in EXCEPT !.pc = "done",
               !.failed = @ \cup {call},
               !.finished = Append(@, [ok |-> FALSE, message |-> call.handler])]

\* run, lines 173-175
inst_makedirs ==
    /\ inst.pc = "makedirs"
    /\ \/ inst' = Abort(inst, [handler |-> "makedirs", index |-> 0])
       \/ inst' = [inst EXCEPT
                     !.target.dir = TRUE,
                     !.progress = @ \o <<10>>
                                    \o (IF inst.data.DEPENDENCIES # <<>> THEN <<20>> ELSE <<>>),
                     !.pc = "dependencies", !.i = 1]
    /\ UNCHANGED <<runVars, val, ui, doc, gen, ed>>

\* mutant of install_dependency: a failing pip run is ignored
install_dependency_unchecked ==
    /\ inst.pc = "dependencies"
    /\ IF inst.i > Len(inst.data.DEPENDENCIES)
       THEN inst' = [inst EXCEPT !.progress = Append(@, 40), !.pc = "files", !.i = 1]
       ELSE LET dep == inst.data.DEPENDENCIES[inst.i]
                dep_type == Get(dep, "type", <<"pip">>)
                name == Get(dep, "name", <<>>)
                called == [inst EXCEPT !.trace = Append(@, Call("_install_dependency")),
                                       !.i = @ + 1]
            IN  IF dep_type = <<"pip">> /\ name # <<>>
                THEN \/ inst' = [called EXCEPT !.target.pip = Append(@, name)]
                     \/ inst' = [called EXCEPT !.failed = @ \cup {Call("_install_dependency")}]
                ELSE inst' = called
    /\ UNCHANGED <<runVars, val, ui, doc, gen, ed>>

\* run, lines 177-181, and _install_dependency: pip is run with check=True
install_dependency ==
    /\ inst.pc = "dependencies"
    /\ IF inst.i > Len(inst.data.DEPENDENCIES)
       THEN inst' = [inst EXCEPT !.progress = Append(@, 40), !.pc = "files", !.i = 1]
       ELSE LET dep == inst.data.DEPENDENCIES[inst.i]
                dep_type == Get(dep, "type", <<"pip">>)
                name == Get(dep, "name", <<>>)
                called == [inst EXCEPT !.trace = Append(@, Call("_install_dependency")),
                                       !.i = @ + 1]
            IN  IF dep_type = <<"pip">> /\ name # <<>>
                THEN \/ inst' = [called EXCEPT !.target.pip = Append(@, name)]
                     \/ inst' = Abort(called, Call("_install_dependency"))
                ELSE inst' = called
    /\ UNCHANGED <<runVars, val, ui, doc, gen, ed>>

\* run, lines 183-186, and _copy_file: the entry is read by the keys
\* 'source' and 'destination'
copy_file ==
    /\ inst.pc = "files"
    /\ IF inst.i > Len(inst.data.FILES_DATA)
       THEN inst' = [inst EXCEPT !.progress = Append(@, 60), !.pc = "shortcuts", !.i = 1]
       ELSE LET file_info == inst.data.FILES_DATA[inst.i]
                source == Get(file_info, "source", <<>>)
                dest == Get(file_info, "destination", <<>>)
                called == [inst EXCEPT !.trace = Append(@, Call("_copy_file")), !.i = @ + 1]
            IN  IF source = <<>> \/ dest = <<>>
                THEN inst' = called
                ELSE \/ inst' = [called EXCEPT !.target.files = @ \cup {dest}]
                     \/ inst' = Abort(called, Call("_copy_file"))
    /\ UNCHANGED <<runVars, val, ui, doc, gen, ed>>

\* run, lines 188-191, and _create_shortcut: only ImportError is caught
create_shortcut ==
    /\ inst.pc = "shortcuts"
    /\ IF inst.i > Len(inst.data.SHORTCUTS)
       THEN inst' = [inst EXCEPT !.progress = Append(@, 70), !.pc = "registry", !.i = 1]
       ELSE LET shortcut == inst.data.SHORTCUTS[inst.i]
                name == Get(shortcut, "name", <<>>)
                location == Get(shortcut, "location", <<"desktop">>)
                called == [inst EXCEPT !.trace = Append(@, Call("_create_shortcut")),
                                       !.i = @ + 1]
            IN  \/ \* import win32com.client raises ImportError
                   inst' = [called EXCEPT !.failed = @ \cup {Call("_create_shortcut")}]
                \/ IF location \in { <<"desktop">>, <<"start_menu">> }
                   THEN \/ inst' = [called EXCEPT
                                      !.target.shortcuts = @ \cup { <<name, location>> }]
                        \/ \* the shell object or link.save() raises
                           inst' = Abort(called, Call("_create_shortcut"))
                   ELSE inst' = called
    /\ UNCHANGED <<runVars, val, ui, doc, gen, ed>>

\* what _apply_registry writes: the entry read by the keys 'root', 'key',
\* 'name', 'value' and 'type'
RegistryWrite(reg_entry) ==
    [root |-> Get(reg_entry, "root", <<"HKEY_CURRENT_USER">>),
     key |-> Get(reg_entry, "key", <<>>),
     name |-> Get(reg_entry, "name", <<>>),
     value |-> Get(reg_entry, "value", <<>>),
     type |-> Get(reg_entry, "type", <<"REG_SZ">>)]

\* mutant of apply_registry: a failing entry raises out of the handler
apply_registry_raising ==
    /\ inst.pc = "registry"
    /\ IF inst.i > Len(inst.data.REGISTRY_ENTRIES)
       THEN inst' = [inst EXCEPT !.progress = Append(@, 80), !.pc = "scripts", !.i = 1]
       ELSE LET called == [inst EXCEPT !.trace = Append(@, Call("_apply_registry")),
                                       !.i = @ + 1]
            IN  \/ inst' = [called EXCEPT
                              !.target.registry =
                                  Append(@, RegistryWrite(inst.data.REGISTRY_ENTRIES[inst.i]))]
                \/ inst' = Abort(called, Call("_apply_registry"))
    /\ UNCHANGED <<runVars, val, ui, doc, gen, ed>>

\* run, lines 193-196, and _apply_registry: every exception is caught
apply_registry ==
    /\ inst.pc = "registry"
    /\ IF inst.i > Len(inst.data.REGISTRY_ENTRIES)
       THEN inst' = [inst EXCEPT !.progress = Append(@, 80), !.pc = "scripts", !.i = 1]
       ELSE LET called == [inst EXCEPT !.trace = Append(@, Call("_apply_registry")),
                                       !.i = @ + 1]
            IN  \/ inst' = [called EXCEPT
                              !.target.registry =
                                  Append(@, RegistryWrite(inst.data.REGISTRY_ENTRIES[inst.i]))]
                \/ inst' = [called EXCEPT !.failed = @ \cup {Call("_apply_registry")}]
    /\ UNCHANGED <<runVars, val, ui, doc, gen, ed>>

\* the step after the scripts: lines 204-207
AfterScripts(in) ==
    IF in.data.CREATE_UNINSTALLER
    THEN [in EXCEPT !.progress = Append(@, 90), !.pc = "uninstaller", !.i = 1]
    ELSE [in EXCEPT !.pc = "complete", !.i = 1]

\* mutant of run_script: success is reported when the scripts are through
run_script_reporting ==
    /\ inst.pc = "scripts"
    /\ IF inst.i > Len(inst.data.SCRIPT_ELEMENTS)
       THEN inst' = [AfterScripts(inst) EXCEPT
                       !.finished = Append(@, [ok |-> TRUE, message |-> "completed"])]
       ELSE inst' = [inst EXCEPT !.i = @ + 1]
    /\ UNCHANGED <<runVars, val, ui, doc, gen, ed>>

\* run, lines 198-202, and _run_script: the element is read by the keys
\* 'event', 'type' and 'content'
run_script ==
    /\ inst.pc = "scripts"
    /\ IF inst.i > Len(inst.data.SCRIPT_ELEMENTS)
       THEN inst' = AfterScripts(inst)
       ELSE LET script == inst.data.SCRIPT_ELEMENTS[inst.i]
                script_type == Get(script, "type", <<"python">>)
                content == Get(script, "content", <<>>)
                called == [inst EXCEPT !.trace = Append(@, Call("_run_script")), !.i = @ + 1]
            IN  IF Get(script, "event", <<>>) # <<"post_install">>
                THEN inst' = [inst EXCEPT !.i = @ + 1]
                ELSE IF script_type \in { <<"python">>, <<"cmd">> } /\ content # <<>>
                THEN \/ inst' = [called EXCEPT !.target.ran = Append(@, inst.i)]
                     \/ inst' = Abort(called, Call("_run_script"))
                ELSE inst' = called
    /\ UNCHANGED <<runVars, val, ui, doc, gen, ed>>

\* _create_uninstaller: uninstall.py is written into the install directory
create_uninstaller ==
    /\ inst.pc = "uninstaller"
    /\ LET called == [inst EXCEPT !.trace = Append(@, Call("_create_uninstaller"))]
       IN  \/ inst' = [called EXCEPT !.target.uninstaller = TRUE, !.pc = "complete"]
           \/ inst' = Abort(called, Call("_create_uninstaller"))
    /\ UNCHANGED <<runVars, val, ui, doc, gen, ed>>

\* run, lines 209-210
install_complete ==
    /\ inst.pc = "complete"
    /\ inst' = [inst EXCEPT !.progress = Append(@, 100),
                            !.finished = Append(@, [ok |-> TRUE, message |-> "completed"]),
                            !.pc = "done"]
    /\ UNCHANGED <<runVars, val, ui, doc, gen, ed>>

NextInst ==
    \/ inst_makedirs
    \/ install_dependency
    \/ copy_file
    \/ create_shortcut
    \/ apply_registry
    \/ run_script
    \/ create_uninstaller
    \/ install_complete

InitInst ==
    /\ RunInit({<<"D">>})
    /\ out_exists = FALSE
    /\ val = Unused
    /\ ui = Unused
    /\ doc = Unused
    /\ gen = Unused
    /\ ed = Unused
    /\ (\E p \in InstProjects :
         inst = [pc |-> "makedirs", i |-> 1, project |-> p, data |-> Embedded(p),
                 target |-> [dir |-> FALSE, pip |-> <<>>, files |-> {}, shortcuts |-> {}, registry |-> <<>>,
                              ran |-> <<>>, uninstaller |-> FALSE], progress |-> <<>>, finished |-> <<>>,
                 trace |-> <<>>, failed |-> {}])

SpecInst == InitInst /\ [][NextInst]_vars

\* ------------------------------------------------- claims on the installer
HandlerRank(h) ==
    CASE h = "makedirs" -> 1
      [] h = "_install_dependency" -> 2
      [] h = "_copy_file" -> 3
      [] h = "_create_shortcut" -> 4
      [] h = "_apply_registry" -> 5
      [] h = "_run_script" -> 6
      [] h = "_create_uninstaller" -> 7

\* the indexes a handler was called with, in call order
CallsOf(h) ==
    LET calls == SelectSeq(inst.trace, LAMBDA c : c.handler = h)
    IN  [k \in 1..Len(calls) |-> calls[k].index]

Upto(n) == [k \in 1..n |-> k]

InstSucceeded == inst.pc = "done" /\ inst.finished = <<[ok |-> TRUE, message |-> "completed"]>>

\* C21: the install routine works in the fixed order directory,
\* dependencies, files, shortcuts, registry, scripts, uninstaller: a handler
\* of a later step is never called before one of an earlier step, the
\* entries of a step are taken in list order, and success is signalled only
\* after the uninstaller step, with every entry of steps 2 to 5 handled.
C21_FixedStepOrder ==
    /\ inst.trace # <<>> /\ inst.trace[1].handler # "makedirs" => inst.target.dir
    /\ \A k \in 1..(Len(inst.trace) - 1) :
           LET a == inst.trace[k]
               b == inst.trace[k + 1]
           IN  \/ HandlerRank(a.handler) < HandlerRank(b.handler)
               \/ a.handler = b.handler /\ a.index < b.index
    /\ \A n \in 1..Len(inst.finished) :
           inst.finished[n].ok =>
               /\ inst.trace # <<>>
               /\ inst.trace[Len(inst.trace)].handler = "_create_uninstaller"
               /\ CallsOf("_install_dependency") = Upto(Len(inst.data.DEPENDENCIES))
               /\ CallsOf("_copy_file") = Upto(Len(inst.data.FILES_DATA))
               /\ CallsOf("_create_shortcut") = Upto(Len(inst.data.SHORTCUTS))
               /\ CallsOf("_apply_registry") = Upto(Len(inst.data.REGISTRY_ENTRIES))

C21_Witness ==
    /\ InstSucceeded
    /\ Len(inst.data.DEPENDENCIES) = 1
    /\ Len(inst.data.FILES_DATA) = 1
    /\ Len(inst.data.REGISTRY_ENTRIES) = 1
    /\ Len(inst.trace) = 4

\* C22: after an install that reports success, every file entry of the
\* project (the sources exist) has been copied to its install_path under
\* the install directory.
C22_FilesCopied ==
    InstSucceeded =>
        \A i \in 1..Len(inst.project.files) :
            inst.project.files[i].install_path \in inst.target.files

\* the script elements step 6 is to run: those whose parameters.event is
\* "post_install", by position
PostInstall ==
    SelectSeq(Upto(Len(inst.project.script_elements)),
              LAMBDA i : inst.project.script_elements[i].parameters.event = <<"post_install">>)

\* C23: step 6 runs every script element whose parameters.event is
\* "post_install", in list order, and no other.
C23_PostInstallScriptsRun == InstSucceeded => inst.target.ran = PostInstall

\* the calls that raised inside the named handler
RaisedIn(h) == { c \in inst.failed : c.handler = h }

\* C24: a failure while applying one registry entry is swallowed for that
\* entry only: no failure is ever reported for it, and when nothing else
\* fails every registry entry is still handled, the uninstaller step runs
\* and the install reports success.
C24_RegistryBestEffort ==
    /\ \A n \in 1..Len(inst.finished) : inst.finished[n].message # "_apply_registry"
    /\ (inst.pc = "done" /\ inst.failed # {} /\ inst.failed = RaisedIn("_apply_registry")) =>
           /\ InstSucceeded
           /\ CallsOf("_apply_registry") = Upto(Len(inst.data.REGISTRY_ENTRIES))
           /\ inst.target.uninstaller

C24_Witness ==
    /\ InstSucceeded
    /\ inst.failed = { [handler |-> "_apply_registry", index |-> 1] }
    /\ Len(inst.data.REGISTRY_ENTRIES) = 2
    /\ Len(inst.target.registry) = 1

\* C25: a failure while installing a dependency or copying a file aborts the
\* run: the failing call is the last call made, no later step has acted,
\* exactly one finished signal is emitted, with success false and the
\* failure's message, and what was installed before stays installed.
C25_DependencyOrCopyAborts ==
    \A c \in RaisedIn("_install_dependency") \cup RaisedIn("_copy_file") :
        /\ inst.pc = "done"
        /\ inst.finished = <<[ok |-> FALSE, message |-> c.handler]>>
        /\ inst.trace[Len(inst.trace)] = c
        /\ inst.target.shortcuts = {}
        /\ inst.target.registry = <<>>
        /\ inst.target.ran = <<>>
        /\ ~inst.target.uninstaller
        /\ inst.target.dir
        /\ c.handler = "_install_dependency" => Len(inst.target.pip) = c.index - 1

C25_Witness ==
    /\ inst.pc = "done"
    /\ inst.failed = { [handler |-> "_install_dependency", index |-> 2] }
    /\ inst.target.pip = << <<"requests">> >>
    /\ Len(inst.data.FILES_DATA) = 1

\* C26: the uninstall program is written into the install directory if and
\* only if the project asks for an uninstaller.
C26_UninstallerIffRequested ==
    InstSucceeded => (inst.target.uninstaller <=> inst.project.create_uninstaller)

\* the shortcuts the project's entries resolve to
ShortcutsWanted ==
    UNION { { <<inst.project.shortcuts[i].name, loc>> :
                loc \in (CASE inst.project.shortcuts[i].location = <<"both">> ->
                                 { <<"desktop">>, <<"start_menu">> }
                           [] OTHER -> { inst.project.shortcuts[i].location }) } :
            i \in 1..Len(inst.project.shortcuts) }

\* C27: each shortcut entry is created at every location its location value
\* resolves to ('both': desktop and start menu), and a failure creating one
\* shortcut is swallowed: it does not abort the install.
C27_ShortcutsAtLocations ==
    /\ (InstSucceeded /\ RaisedIn("_create_shortcut") = {}) =>
           inst.target.shortcuts = ShortcutsWanted
    /\ (inst.pc = "done" /\ inst.failed = RaisedIn("_create_shortcut")) => InstSucceeded

====
